---- MODULE Spec2Model ----
(***************************************************************************)
(* AnnenBites: the dashboard's recommendation pipeline (dietary filter,    *)
(* category classifier, preference scorer, diversified top-3 selection)    *)
(* and daily totals, the requests that log, remove and rate meals, save    *)
(* preferences and like feedback, and the two ingestion scripts, over the  *)
(* tables menu_items, user_preferences, user_meals, item_feedback,         *)
(* feedback and feedback_likes.                                            *)
(*                                                                         *)
(* Text is modelled as TLA+ strings, processed character by character:     *)
(* lower() maps the ASCII capitals, strip() removes spaces.  A nullable    *)
(* column or an absent row is None (the empty tuple) or Some(v) (the one-  *)
(* element tuple).  Nutrition values are whole numbers, for which float    *)
(* addition is exact.  Scores are floats in the program; here they are     *)
(* exact integers scaled by 20, so 0.05 is 1, 0.1 is 2, 0.2 is 4, 0.3 is   *)
(* 6, 0.6 is 12, and the penalties 100, 50, 20 and the bonus 5 are 2000,   *)
(* 1000, 400 and 100.  The columns height_cm, weight_kg, image_path and    *)
(* created_at, which no code modelled here reads, are left out.            *)
(*                                                                         *)
(* Every db.execute is one statement that commits by itself.  A handler    *)
(* of one statement is one action; a handler of several statements is one  *)
(* action per statement, its locals kept in inflight between them, so      *)
(* that requests on two threads of the server interleave between           *)
(* statements.                                                             *)
(***************************************************************************)
EXTENDS Integers, Sequences, FiniteSets, TLC

\* A SELECT ... WHERE over a table is SelectSeq: the rows that satisfy the
\* test, in rowid order.

VARIABLES
    menu_items,        \* table menu_items, a sequence of rows in rowid order
    user_preferences,  \* table user_preferences, a sequence of rows
    user_meals,        \* table user_meals: the meals the users logged
    item_feedback,     \* table item_feedback: the 1-5 ratings of menu items
    feedback,          \* table feedback: the posts of the feedback wall
    feedback_likes,    \* table feedback_likes: which user liked which post
    sqlite_sequence,   \* the last AUTOINCREMENT id handed out, per table
    inflight,          \* per worker thread: the request it is handling and
                       \*   the locals of its handler, between two statements
    response,          \* the dashboard page the last step rendered, if it did
    txt,               \* text harness: the dietary_restrictions text
    txt_pc,
    txt_tokens,        \* parse_list_field(txt)
    txt_flags,         \* _load_dietary_flags of a row holding txt
    f_item,            \* filter harness: the item
    f_flags,           \*   the dietary flag set
    f_pc,
    f_ret,             \*   _violates_dietary_restrictions(f_item, f_flags)
    s_item,            \* scorer harness: the item
    s_prefs,           \*   the preferences row, or None
    s_pc,              \*   the block of score_menu_item reached
    score              \*   the accumulator `score` of score_menu_item

vars == <<menu_items, user_preferences, user_meals, item_feedback, feedback,
          feedback_likes, sqlite_sequence, inflight, response, txt, txt_pc, txt_tokens,
          txt_flags, f_item, f_flags, f_pc, f_ret, s_item, s_prefs, s_pc,
          score>>

dbVars == <<menu_items, user_preferences, user_meals, item_feedback, feedback,
           feedback_likes, sqlite_sequence, inflight, response>>
txtVars == <<txt, txt_pc, txt_tokens, txt_flags>>
filterVars == <<f_item, f_flags, f_pc, f_ret>>
scoreVars == <<s_item, s_prefs, s_pc, score>>

(***************************************************************************)
(* Python values                                                           *)
(***************************************************************************)
None == <<>>
Some(v) == <<v>>

\* `x or d` for a nullable text or number: None, "" and 0 are falsy.
OrElse(x, d) == IF x = None THEN d ELSE x[1]

Chr(s, i) == SubSeq(s, i, i)

\* str.lower on one character: the ASCII capitals, every other character as is
LOWER_OF ==
    [c \in {"A", "B", "C", "D", "E", "F", "G", "H", "I", "J", "K", "L", "M",
            "N", "O", "P", "Q", "R", "S", "T", "U", "V", "W", "X", "Y", "Z"} |->
        CASE c = "A" -> "a" [] c = "B" -> "b" [] c = "C" -> "c" [] c = "D" -> "d"
          [] c = "E" -> "e" [] c = "F" -> "f" [] c = "G" -> "g" [] c = "H" -> "h"
          [] c = "I" -> "i" [] c = "J" -> "j" [] c = "K" -> "k" [] c = "L" -> "l"
          [] c = "M" -> "m" [] c = "N" -> "n" [] c = "O" -> "o" [] c = "P" -> "p"
          [] c = "Q" -> "q" [] c = "R" -> "r" [] c = "S" -> "s" [] c = "T" -> "t"
          [] c = "U" -> "u" [] c = "V" -> "v" [] c = "W" -> "w" [] c = "X" -> "x"
          [] c = "Y" -> "y" [] c = "Z" -> "z"]

lower_char(c) == IF c \in DOMAIN LOWER_OF THEN LOWER_OF[c] ELSE c

\* str.lower
RECURSIVE lower(_)
lower(s) == IF s = "" THEN "" ELSE lower_char(Head(s)) \o lower(Tail(s))

\* `w in text` on strings: the substring test
contains(w, text) ==
    \/ w = ""
    \/ \E i \in 1..(Len(text) - Len(w) + 1) : SubSeq(text, i, i + Len(w) - 1) = w

\* str.split(sep) for a one-character separator: empty pieces are kept
RECURSIVE split(_, _)
split(s, sep) ==
    IF ~ \E i \in 1..Len(s) : Chr(s, i) = sep
    THEN <<s>>
    ELSE LET i == CHOOSE k \in 1..Len(s) :
                      /\ Chr(s, k) = sep
                      /\ \A j \in 1..(k - 1) : Chr(s, j) # sep
         IN  <<SubSeq(s, 1, i - 1)>> \o split(SubSeq(s, i + 1, Len(s)), sep)

\* str.replace(a, b) for one-character a
RECURSIVE replace(_, _, _)
replace(s, a, b) ==
    IF s = "" THEN ""
    ELSE (IF Head(s) = a THEN b ELSE Head(s)) \o replace(Tail(s), a, b)

IsSpace(c) == c = " "

\* str.strip(): leading and trailing whitespace removed
RECURSIVE lstrip(_)
lstrip(s) == IF s # "" /\ IsSpace(Head(s)) THEN lstrip(Tail(s)) ELSE s
RECURSIVE rstrip(_)
rstrip(s) ==
    IF s # "" /\ IsSpace(Chr(s, Len(s))) THEN rstrip(SubSeq(s, 1, Len(s) - 1)) ELSE s
strip(s) == rstrip(lstrip(s))

\* `x in list`
InList(x, list) == \E i \in 1..Len(list) : list[i] = x

(***************************************************************************)
(* helpers.py                                                              *)
(***************************************************************************)
\* parse_list_field: None and "" give []; otherwise the comma-separated
\* pieces, each stripped and lower-cased (empty pieces are kept).
parse_list_field(field) ==
    IF field = None \/ field = Some("")
    THEN <<>>
    ELSE LET parts == split(field[1], ",")
         IN  [i \in 1..Len(parts) |-> lower(strip(parts[i]))]

\* dietary_penalty with the gluten-free penalty as large as the other two
dietary_penalty_flat(sc, dietary, tags) ==
    LET s1 == IF InList("vegetarian", dietary) /\ ~InList("vegetarian", tags)
              THEN sc - 2000 ELSE sc
        s2 == IF InList("vegan", dietary) /\ ~InList("vegan", tags)
              THEN s1 - 2000 ELSE s1
    IN  IF InList("gluten-free", dietary) /\ ~InList("gluten-free", tags)
        THEN s2 - 2000 ELSE s2

\* score_menu_item, block 1: the dietary penalties, by tag presence
dietary_penalty(sc, dietary, tags) ==
    LET s1 == IF InList("vegetarian", dietary) /\ ~InList("vegetarian", tags)
              THEN sc - 2000 ELSE sc
        s2 == IF InList("vegan", dietary) /\ ~InList("vegan", tags)
              THEN s1 - 2000 ELSE s1
    IN  IF InList("gluten-free", dietary) /\ ~InList("gluten-free", tags)
        THEN s2 - 1000 ELSE s2

\* goal_term with the calorie charge of "gain muscle" also under "maintain"
goal_term_maintain_charged(sc, goal, calories, protein) ==
    IF goal = "gain muscle" THEN sc + protein * 12 - calories * 1
    ELSE IF goal = "lose weight" THEN sc - calories * 2 + protein * 4
    ELSE IF goal = "maintain" THEN sc + protein * 6 - calories * 1
    ELSE sc

\* score_menu_item, block 2: the wellness goal
goal_term(sc, goal, calories, protein) ==
    IF goal = "gain muscle" THEN sc + protein * 12 - calories * 1
    ELSE IF goal = "lose weight" THEN sc - calories * 2 + protein * 4
    ELSE IF goal = "maintain" THEN sc + protein * 6
    ELSE sc

\* fav_bonus without the test that the token is not empty
RECURSIVE fav_bonus_unguarded(_, _, _)
fav_bonus_unguarded(sc, fav_cuisines, name) ==
    IF fav_cuisines = <<>> THEN sc
    ELSE fav_bonus_unguarded(IF contains(Head(fav_cuisines), name) THEN sc + 100 ELSE sc,
                             Tail(fav_cuisines), name)

\* score_menu_item, block 3: the loop over fav_cuisines
RECURSIVE fav_bonus(_, _, _)
fav_bonus(sc, fav_cuisines, name) ==
    IF fav_cuisines = <<>> THEN sc
    ELSE LET fav == Head(fav_cuisines)
         IN  fav_bonus(IF fav # "" /\ contains(fav, name) THEN sc + 100 ELSE sc,
                       Tail(fav_cuisines), name)

\* score_menu_item, block 4: the loop over dislikes
RECURSIVE dislike_penalty(_, _, _)
dislike_penalty(sc, dislikes, name) ==
    IF dislikes = <<>> THEN sc
    ELSE LET bad == Head(dislikes)
         IN  dislike_penalty(IF bad # "" /\ contains(bad, name) THEN sc - 400 ELSE sc,
                             Tail(dislikes), name)

\* cold_start that reads an absent protein as 1
cold_start_default_one(item) ==
    LET calories == OrElse(item.calories, 0)
        protein == OrElse(item.protein, 1)
    IN  protein * 6 - calories * 1

\* score_menu_item with no preferences: the macro heuristic
cold_start(item) ==
    LET calories == OrElse(item.calories, 0)
        protein == OrElse(item.protein, 0)
    IN  protein * 6 - calories * 1

\* The locals score_menu_item pulls from the preferences row and the item
ScoreLocals(item, prefs) ==
    [dietary |-> parse_list_field(prefs.dietary_restrictions),
     fav_cuisines |-> parse_list_field(prefs.fav_cuisines),
     dislikes |-> parse_list_field(prefs.disliked_items),
     goal |-> lower(OrElse(prefs.wellness_goal, "")),
     tags |-> parse_list_field(item.tags),
     name |-> lower(item.name),
     calories |-> OrElse(item.calories, 0),
     protein |-> OrElse(item.protein, 0)]

\* score_menu_item(item, prefs); prefs is None or Some(row)
score_menu_item(item, prefs) ==
    IF prefs = None THEN cold_start(item)
    ELSE LET v == ScoreLocals(item, prefs[1])
             s1 == dietary_penalty(0, v.dietary, v.tags)
             s2 == goal_term(s1, v.goal, v.calories, v.protein)
             s3 == fav_bonus(s2, v.fav_cuisines, v.name)
         IN  dislike_penalty(s3, v.dislikes, v.name)

(***************************************************************************)
(* app.py: helper functions                                                *)
(***************************************************************************)
\* The dict CATEGORY_KEYWORDS in declaration (= iteration) order
CATEGORY_KEYWORDS ==
    << <<"waffle", <<"waffle">> >>,
       <<"pancake", <<"pancake">> >>,
       <<"bagel", <<"bagel">> >>,
       <<"bread", <<"toast", "bread">> >>,
       <<"eggs", <<"egg", "omelet", "omelette">> >>,
       <<"yogurt", <<"yogurt">> >>,
       <<"oatmeal", <<"oatmeal", "oats">> >>,
       <<"salad", <<"salad">> >>,
       <<"soup", <<"soup">> >>,
       <<"sandwich", <<"sandwich", "wrap">> >>,
       <<"pizza", <<"pizza">> >>,
       <<"burger", <<"burger">> >> >>

MEAT_WORDS ==
    <<"chicken", "beef", "pork", "bacon", "ham", "turkey", "sausage",
      "pepperoni", "meatball", "meatballs", "steak">>

SEAFOOD_WORDS ==
    <<"fish", "salmon", "tuna", "shrimp", "crab", "lobster", "cod", "tilapia">>

DAIRY_EGG_WORDS ==
    <<"cheese", "egg", "eggs", "milk", "yogurt", "butter", "cream">>

\* any(w in text for w in words)
AnyIn(words, text) == \E i \in 1..Len(words) : contains(words[i], text)

\* infer_category, the loop: the first category, in declaration order, with
\* a keyword in the lower-cased name
RECURSIVE FirstCategory(_, _)
FirstCategory(cats, low) ==
    IF cats = <<>> THEN "other"
    ELSE IF AnyIn(Head(cats)[2], low) THEN Head(cats)[1]
    ELSE FirstCategory(Tail(cats), low)

infer_category(name) == FirstCategory(CATEGORY_KEYWORDS, lower(name))

\* _load_dietary_flags(prefs_row); prefs_row is None or Some(row)
_load_dietary_flags(prefs_row) ==
    IF prefs_row = None THEN {}
    ELSE LET raw == OrElse(prefs_row[1].dietary_restrictions, "")
             parts == split(replace(lower(raw), ";", ","), ",")
         IN  {strip(parts[i]) : i \in 1..Len(parts)} \ {""}

\* _violates_dietary_restrictions with the dairy and egg words held against
\* vegetarians too
_violates_dairy_for_vegetarians(item, dietary_flags) ==
    LET text == lower(item.name) \o " " \o lower(OrElse(item.tags, ""))
    IN  /\ dietary_flags \cap {"vegetarian", "vegan"} # {}
        /\ \/ AnyIn(MEAT_WORDS \o SEAFOOD_WORDS, text)
           \/ AnyIn(DAIRY_EGG_WORDS, text)

\* _violates_dietary_restrictions(item, dietary_flags)
_violates_dietary_restrictions(item, dietary_flags) ==
    LET name == lower(item.name)
        tags == lower(OrElse(item.tags, ""))
        text == name \o " " \o tags
    IN  \/ /\ "vegetarian" \in dietary_flags
           /\ AnyIn(MEAT_WORDS \o SEAFOOD_WORDS, text)
        \/ /\ "vegan" \in dietary_flags
           /\ \/ AnyIn(MEAT_WORDS \o SEAFOOD_WORDS, text)
              \/ AnyIn(DAIRY_EGG_WORDS, text)

(***************************************************************************)
(* SQLite: text comparison (BINARY collation) and the queries              *)
(***************************************************************************)
\* The characters the model's texts use, in ASCII order
ASCII == " ,-0123456789;ABCDEFGHIJKLMNOPQRSTUVWXYZabcdefghijklmnopqrstuvwxyz"

Ord(c) == CHOOSE i \in 1..Len(ASCII) : Chr(ASCII, i) = c

\* a < b as SQLite compares TEXT: byte by byte, a proper prefix first
RECURSIVE StrLess(_, _)
StrLess(a, b) ==
    IF b = "" THEN FALSE
    ELSE IF a = "" THEN TRUE
    ELSE IF Head(a) # Head(b) THEN Ord(Head(a)) < Ord(Head(b))
    ELSE StrLess(Tail(a), Tail(b))

\* ORDER BY name: rows with equal names stay in rowid order
RECURSIVE OrderByName(_)
OrderByName(rows) ==
    IF rows = <<>> THEN <<>>
    ELSE LET done == OrderByName(SubSeq(rows, 1, Len(rows) - 1))
             r == rows[Len(rows)]
             k == Cardinality({i \in 1..Len(done) : ~StrLess(r.name, done[i].name)})
         IN  SubSeq(done, 1, k) \o <<r>> \o SubSeq(done, k + 1, Len(done))

\* get_latest_menu_date: SELECT MAX(date) FROM menu_items, None without rows
get_latest_menu_date(rows) ==
    IF rows = <<>> THEN None
    ELSE Some(rows[CHOOSE i \in 1..Len(rows) :
                       \A j \in 1..Len(rows) : ~StrLess(rows[i].date, rows[j].date)].date)

(***************************************************************************)
(* app.py: dashboard                                                       *)
(***************************************************************************)
\* FilterItems with the dietary test left out
FilterItemsKeepAll(raw_items, dietary_flags) == raw_items

\* dashboard, the for loop over raw_items: the items that pass the filter
FilterItems(raw_items, dietary_flags) ==
    LET Keep(item) == ~_violates_dietary_restrictions(item, dietary_flags)
    IN  SelectSeq(raw_items, Keep)

\* dashboard: scored, the (item, score) pairs in filter order
ScoreItems(items, prefs) ==
    [i \in 1..Len(items) |-> <<items[i], score_menu_item(items[i], prefs)>>]

\* SortByScoreDesc with a pair placed before the pairs of equal score, as a
\* sort that is not stable may do
RECURSIVE SortByScoreDescUnstable(_)
SortByScoreDescUnstable(scored) ==
    IF scored = <<>> THEN <<>>
    ELSE LET done == SortByScoreDescUnstable(SubSeq(scored, 1, Len(scored) - 1))
             t == scored[Len(scored)]
             k == Cardinality({i \in 1..Len(done) : done[i][2] > t[2]})
         IN  SubSeq(done, 1, k) \o <<t>> \o SubSeq(done, k + 1, Len(done))

\* SortByScoreDesc without reverse=True: ascending by score
RECURSIVE SortByScoreAsc(_)
SortByScoreAsc(scored) ==
    IF scored = <<>> THEN <<>>
    ELSE LET done == SortByScoreAsc(SubSeq(scored, 1, Len(scored) - 1))
             t == scored[Len(scored)]
             k == Cardinality({i \in 1..Len(done) : done[i][2] <= t[2]})
         IN  SubSeq(done, 1, k) \o <<t>> \o SubSeq(done, k + 1, Len(done))

\* scored.sort(key=lambda t: t[1], reverse=True): descending by score and
\* stable, pairs of equal score keep their order
RECURSIVE SortByScoreDesc(_)
SortByScoreDesc(scored) ==
    IF scored = <<>> THEN <<>>
    ELSE LET done == SortByScoreDesc(SubSeq(scored, 1, Len(scored) - 1))
             t == scored[Len(scored)]
             k == Cardinality({i \in 1..Len(done) : done[i][2] >= t[2]})
         IN  SubSeq(done, 1, k) \o <<t>> \o SubSeq(done, k + 1, Len(done))

\* MaxResults off by one
MaxResultsPlusOne == 3 + 1

\* The most recommendations dashboard makes
MaxResults == 3

\* PickDistinct with the used_cats test left out
RECURSIVE PickAnyCategory(_, _, _)
PickAnyCategory(scored, recommendations, used_cats) ==
    IF scored = <<>> THEN recommendations
    ELSE IF Len(recommendations) + 1 = MaxResults
    THEN Append(recommendations, Head(scored)[1])
    ELSE PickAnyCategory(Tail(scored), Append(recommendations, Head(scored)[1]),
                         used_cats)

\* dashboard, the loop that picks the recommendations: one item for each
\* category, in sorted order, until MaxResults are taken
RECURSIVE PickDistinct(_, _, _)
PickDistinct(scored, recommendations, used_cats) ==
    IF scored = <<>> THEN recommendations
    ELSE LET item == Head(scored)[1]
             cat == infer_category(item.name)
         IN  IF cat \in used_cats
             THEN PickDistinct(Tail(scored), recommendations, used_cats)
             ELSE IF Len(recommendations) + 1 = MaxResults
             THEN Append(recommendations, item)
             ELSE PickDistinct(Tail(scored), Append(recommendations, item),
                               used_cats \cup {cat})

\* selected_ids: {row["menu_item_id"]: row["id"] for row in intake_rows}, the
\* rows of user_meals of this user, date and LOWER(meal); a later row of the
\* same key replaces an earlier one
selected_ids_of(user_id, current_date, meal) ==
    LET IsIntake(um) == /\ um.user_id = user_id
                        /\ um.date = current_date
                        /\ lower(um.meal) = meal
        intake_rows == SelectSeq(user_meals, IsIntake)
        keys == {intake_rows[i].menu_item_id : i \in 1..Len(intake_rows)}
        Last(k) == CHOOSE i \in 1..Len(intake_rows) :
                       /\ intake_rows[i].menu_item_id = k
                       /\ \A j \in (i + 1)..Len(intake_rows) :
                              intake_rows[j].menu_item_id # k
    IN  [k \in keys |-> intake_rows[Last(k)].id]

\* ratings: {row["menu_item_id"]: row["rating"] for row in ratings_rows}, the
\* rows of item_feedback of this user
ratings_of(user_id) ==
    LET IsUser(r) == r.user_id = user_id
        ratings_rows == SelectSeq(item_feedback, IsUser)
        keys == {ratings_rows[i].menu_item_id : i \in 1..Len(ratings_rows)}
        Last(k) == CHOOSE i \in 1..Len(ratings_rows) :
                       /\ ratings_rows[i].menu_item_id = k
                       /\ \A j \in (i + 1)..Len(ratings_rows) :
                              ratings_rows[j].menu_item_id # k
    IN  [k \in keys |-> ratings_rows[Last(k)].rating]

\* SELECT m.calories, m.protein, m.carbs, m.fat FROM user_meals um
\* JOIN menu_items m ON um.menu_item_id = m.id
\* WHERE um.user_id = ? AND um.date = ?
RECURSIVE totals_rows(_, _, _, _)
totals_rows(meals, items, user_id, current_date) ==
    IF meals = <<>> THEN <<>>
    ELSE LET um == Head(meals)
             IsItem(m) == m.id = um.menu_item_id
         IN  (IF um.user_id = user_id /\ um.date = current_date
              THEN SelectSeq(items, IsItem) ELSE <<>>)
             \o totals_rows(Tail(meals), items, user_id, current_date)

\* totals = {"calories": 0, "protein": 0, "carbs": 0, "fat": 0}
ZeroTotals == [calories |-> 0, protein |-> 0, carbs |-> 0, fat |-> 0]

\* add_row with `=` in place of `+=`
add_row_assign(totals, r) ==
    [calories |-> OrElse(r.calories, 0), protein |-> OrElse(r.protein, 0),
     carbs |-> OrElse(r.carbs, 0), fat |-> OrElse(r.fat, 0)]

\* The body of `for r in totals_rows`: totals[k] += r[k] or 0, four times
add_row(totals, r) ==
    [calories |-> totals.calories + OrElse(r.calories, 0),
     protein |-> totals.protein + OrElse(r.protein, 0),
     carbs |-> totals.carbs + OrElse(r.carbs, 0),
     fat |-> totals.fat + OrElse(r.fat, 0)]

\* Aggregate that stops after the first row
AggregateHead(totals, rows) ==
    IF rows = <<>> THEN totals ELSE add_row(totals, Head(rows))

\* The loop `for r in totals_rows`, from the totals so far
RECURSIVE Aggregate(_, _)
Aggregate(totals, rows) ==
    IF rows = <<>> THEN totals
    ELSE Aggregate(add_row(totals, Head(rows)), Tail(rows))

\* What a step that renders no dashboard leaves: POST /preferences answers
\* with a redirect, the importer with nothing
NoPage ==
    [kind |-> "none", user |-> 0, date |-> None, meal |-> "",
     prefs |-> None, dietary_flags |-> {}, raw_items |-> <<>>, items |-> <<>>,
     scored |-> <<>>, recommendations |-> <<>>, selected_ids |-> <<>>,
     ratings |-> <<>>, totals |-> ZeroTotals]

\* dashboard(user_id, date, meal): the values rendered, with the locals that
\* lead to them
Render(user_id, date_arg, meal_arg) ==
    LET current_date == IF OrElse(date_arg, "") # "" THEN date_arg
                        ELSE get_latest_menu_date(menu_items)
        meal == lower(IF OrElse(meal_arg, "") # "" THEN meal_arg[1] ELSE "breakfast")
        IsUser(p) == p.user_id = user_id
        prefs_rows == SelectSeq(user_preferences, IsUser)
        prefs == IF prefs_rows # <<>> THEN Some(prefs_rows[1]) ELSE None
        dietary_flags == _load_dietary_flags(prefs)
        IsMeal(m) == m.date = current_date[1] /\ lower(m.meal) = meal
        raw_items == OrderByName(SelectSeq(menu_items, IsMeal))
        items == FilterItems(raw_items, dietary_flags)
        scored == SortByScoreDesc(ScoreItems(items, prefs))
    IN  IF current_date = None
        THEN [NoPage EXCEPT !.kind = "dashboard", !.user = user_id,
                              !.meal = "breakfast"]
        ELSE [kind |-> "dashboard", user |-> user_id, date |-> current_date,
              meal |-> meal, prefs |-> prefs, dietary_flags |-> dietary_flags,
              raw_items |-> raw_items, items |-> items, scored |-> scored,
              recommendations |-> PickDistinct(scored, <<>>, {}),
              selected_ids |-> selected_ids_of(user_id, current_date[1], meal),
              ratings |-> ratings_of(user_id),
              totals |-> Aggregate(ZeroTotals,
                                   totals_rows(user_meals, menu_items, user_id,
                                               current_date[1]))]

(***************************************************************************)
(* import_menu.py                                                          *)
(***************************************************************************)
DIGITS == "0123456789"

\* The value of a text of decimal digits
RECURSIVE digits_value(_)
digits_value(cell) ==
    IF cell = "" THEN 0
    ELSE digits_value(SubSeq(cell, 1, Len(cell) - 1)) * 10
         + (CHOOSE d \in 0..9 : Chr(DIGITS, d + 1) = Chr(cell, Len(cell)))

\* float(cell) for a cell of decimal digits behind an optional minus sign
\* (whole numbers only)
to_float(cell) ==
    IF cell # "" /\ Chr(cell, 1) = "-"
    THEN 0 - digits_value(SubSeq(cell, 2, Len(cell)))
    ELSE digits_value(cell)

\* `float(row[k]) if row[k] else None`
NumberCell(cell) == IF cell = "" THEN None ELSE Some(to_float(cell))

\* The menu_items row that import_menu inserts for one CSV row
MenuRow(id, row) ==
    [id |-> id, date |-> row.date, meal |-> row.meal, location |-> row.location,
     name |-> row.name, category |-> Some(row.category),
     calories |-> NumberCell(row.calories), protein |-> NumberCell(row.protein),
     carbs |-> NumberCell(row.carbs), fat |-> NumberCell(row.fat),
     tags |-> Some(row.tags)]

(***************************************************************************)
(* Inputs                                                                  *)
(***************************************************************************)
\* The most rows the menu_items table holds
MaxItems == 4

CsvRow(date, meal, name, calories, protein, tags) ==
    [date |-> date, meal |-> meal, location |-> "Annenberg", name |-> name,
     category |-> "", calories |-> calories, protein |-> protein,
     carbs |-> "", fat |-> "", tags |-> tags]

\* The rows a sample_menu.csv may hold
CsvRows ==
    { CsvRow("2025-12-06", "breakfast", "Waffles", "400", "20", "vegetarian"),
      CsvRow("2025-12-06", "Breakfast", "Belgian Waffles", "400", "20",
             "Vegetarian, Gluten-Free"),
      CsvRow("2025-12-06", "breakfast", "Turkey Sandwich", "300", "30", ""),
      CsvRow("2025-12-06", "breakfast", "Cheese Omelette", "", "30", "vegetarian"),
      CsvRow("2025-12-06", "breakfast", "Garden Salad", "120", "",
             "vegan, vegetarian, gluten-free"),
      CsvRow("2025-12-05", "Lunch", "Tomato Soup", "200", "10", "vegan") }

Users == {1}

\* The POST /preferences forms submitted
PrefForms ==
    { [dietary |-> <<"vegetarian">>, wellness_goal |-> Some("Gain Muscle"),
       fav_cuisines |-> Some("Salad, waffle"), disliked_items |-> Some("belgian")],
      [dietary |-> <<"Vegan", "gluten-free">>, wellness_goal |-> Some("lose weight"),
       fav_cuisines |-> Some(""), disliked_items |-> Some("")],
      [dietary |-> <<>>, wellness_goal |-> None,
       fav_cuisines |-> Some("soup,,omelette"), disliked_items |-> None] }

DateArgs == {None, Some("2025-12-05")}
MealArgs == {None, Some("Lunch")}

\* The most rows ever inserted into user_meals
MaxLogged == 2

\* A menu file with a negative and with empty nutrition cells, imported in
\* file order
IntakeCsv ==
    << CsvRow("2025-12-05", "Lunch", "Tomato Soup", "200", "10", "vegan"),
       CsvRow("2025-12-06", "breakfast", "Diet Soda", "-50", "", "") >>

\* The users who log meals, and the days on which they do
Diners == {1, 2}
Todays == {"2025-12-06"}

\* The forms of POST /add_meal, /remove_meal and /reset_intake
AddMealForms ==
    [menu_item_id : {None, Some("1"), Some("2")}, meal : MealArgs, date : DateArgs]
RemoveMealForms ==
    [user_meal_id : {None} \cup {Some(Chr(DIGITS, k + 1)) : k \in 1..(MaxLogged + 1)},
     meal : {None}, date : {None}]
ResetIntakeForms == [meal : MealArgs, date : DateArgs]

\* The worker threads of the development server, the process that runs
\* scrape_huds.py, and a thread or process between two runs
Threads == {1, 2}
Scraper == 0
Processes == Threads \cup {Scraper}
Idle == [op |-> "idle"]

\* Requests are handled one at a time when no other thread is in flight
Alone(t) == \A o \in Threads \ {t} : inflight[o] = Idle

\* A menu file of one row, imported again and again
ReimportCsv == << CsvRow("2025-12-06", "breakfast", "Waffles", "400", "20", "vegetarian") >>

\* What parse_showreport and extract_nutrition return for the three meal
\* pages of one day: the breakfast and the lunch items, no dinner item
ScrapedItems ==
    << [meal |-> "breakfast", name |-> "Belgian Waffles", calories |-> Some(400),
        protein |-> Some(20), carbs |-> None, fat |-> None],
       [meal |-> "lunch", name |-> "Tomato Soup", calories |-> Some(200),
        protein |-> Some(10), carbs |-> None, fat |-> None] >>

\* The forms of POST /item_feedback: every id a menu item may get, and
\* ratings that are missing, empty, not integers, out of range and valid
ItemIds == {Some(Chr(DIGITS, k + 1)) : k \in 1..MaxItems}
RatingTexts ==
    {None, Some(""), Some("0"), Some("1"), Some("5"), Some("6"), Some("3.5"),
     Some(" 4 "), Some("-2"), Some("abc")}
ItemFeedbackForms ==
    [menu_item_id : {None, Some(""), Some("1"), Some("2")}, rating : RatingTexts]

\* The most rows ever inserted into feedback and into feedback_likes
MaxPosts == 2
MaxLikes == 3

\* The forms of POST /feedback and POST /feedback_like
FeedbackForms == [text : {None, Some("   "), Some(" More waffles ")}]
FeedbackLikeForms ==
    [feedback_id : {None} \cup {Some(Chr(DIGITS, k + 1)) : k \in 1..MaxPosts}]

\* sqlite_sequence before the first INSERT
NoSequence ==
    [menu_items |-> 0, user_meals |-> 0, item_feedback |-> 0, feedback |-> 0,
     feedback_likes |-> 0]

\* cs50.SQL opens its SQLite connections with PRAGMA foreign_keys = ON
foreign_keys == TRUE

(***************************************************************************)
(* Requests                                                                *)
(***************************************************************************)
\* sep.join(list)
RECURSIVE join(_, _)
join(list, sep) ==
    IF list = <<>> THEN ""
    ELSE IF Len(list) = 1 THEN list[1]
    ELSE list[1] \o sep \o join(Tail(list), sep)

\* import_menu.py, one pass of the loop over the CSV rows: INSERT one row
import_menu(row) ==
    /\ Len(menu_items) < MaxItems
    /\ menu_items' = Append(menu_items, MenuRow(sqlite_sequence.menu_items + 1, row))
    /\ sqlite_sequence' = [sqlite_sequence EXCEPT !.menu_items = @ + 1]
    /\ response' = NoPage
    /\ UNCHANGED <<user_preferences, user_meals, item_feedback, feedback,
                   feedback_likes, inflight>>

\* POST /preferences: insert the user's row, or update it in place
preferences(user_id, form) ==
    LET dietary_str == join(form.dietary, ", ")
        existing == {i \in 1..Len(user_preferences) :
                        user_preferences[i].user_id = user_id}
        values == [dietary_restrictions |-> Some(dietary_str),
                   wellness_goal |-> form.wellness_goal,
                   fav_cuisines |-> form.fav_cuisines,
                   disliked_items |-> form.disliked_items]
        Row(id) == [id |-> id, user_id |-> user_id] @@ values
    IN  /\ user_preferences' =
              IF existing # {}
              THEN [i \in 1..Len(user_preferences) |->
                       IF i \in existing THEN Row(user_preferences[i].id)
                       ELSE user_preferences[i]]
              ELSE Append(user_preferences, Row(Len(user_preferences) + 1))
        /\ response' = NoPage
        /\ UNCHANGED <<menu_items, user_meals, item_feedback, feedback,
                       feedback_likes, sqlite_sequence, inflight>>

\* GET /dashboard
dashboard(user_id, date_arg, meal_arg) ==
    /\ response' = Render(user_id, date_arg, meal_arg)
    /\ UNCHANGED <<menu_items, user_preferences, user_meals, item_feedback,
                   feedback, feedback_likes, sqlite_sequence, inflight>>

\* An INTEGER column or a comparison with one turns a text of digits into
\* the number (column affinity)
to_integer(text) == to_float(text)

\* FOREIGN KEY (menu_item_id) REFERENCES menu_items(id), enforced when the
\* connection has foreign keys on
references_menu_item(id) ==
    foreign_keys => \E i \in 1..Len(menu_items) : menu_items[i].id = id

\* POST /add_meal: log one menu item for the user.  An INSERT that breaks
\* the foreign key raises and stores nothing.
add_meal(user_id, form, today) ==
    LET menu_item_id == form.menu_item_id
        meal == lower(IF OrElse(form.meal, "") # "" THEN form.meal[1] ELSE "breakfast")
        date_str == IF OrElse(form.date, "") # "" THEN form.date[1] ELSE today
    IN  /\ IF OrElse(menu_item_id, "") # ""
              /\ references_menu_item(to_integer(menu_item_id[1]))
           THEN /\ sqlite_sequence.user_meals < MaxLogged
                /\ user_meals' =
                      Append(user_meals,
                             [id |-> sqlite_sequence.user_meals + 1,
                              user_id |-> user_id, date |-> date_str, meal |-> meal,
                              menu_item_id |-> to_integer(menu_item_id[1])])
                /\ sqlite_sequence' = [sqlite_sequence EXCEPT !.user_meals = @ + 1]
           ELSE UNCHANGED <<user_meals, sqlite_sequence>>
        /\ response' = NoPage
        /\ UNCHANGED <<menu_items, user_preferences, item_feedback, feedback,
                       feedback_likes, inflight>>

\* remove_meal without `AND user_id = ?`
remove_meal_of_anyone(user_id, form) ==
    LET user_meal_id == form.user_meal_id
        Kept(um) == um.id # to_integer(user_meal_id[1])
    IN  /\ user_meals' = IF OrElse(user_meal_id, "") # ""
                         THEN SelectSeq(user_meals, Kept) ELSE user_meals
        /\ response' = NoPage
        /\ UNCHANGED <<menu_items, user_preferences, item_feedback, feedback,
                       feedback_likes, sqlite_sequence, inflight>>

\* POST /remove_meal: DELETE FROM user_meals WHERE id = ? AND user_id = ?
remove_meal(user_id, form) ==
    LET user_meal_id == form.user_meal_id
        Kept(um) == ~(um.id = to_integer(user_meal_id[1]) /\ um.user_id = user_id)
    IN  /\ user_meals' = IF OrElse(user_meal_id, "") # ""
                         THEN SelectSeq(user_meals, Kept) ELSE user_meals
        /\ response' = NoPage
        /\ UNCHANGED <<menu_items, user_preferences, item_feedback, feedback,
                       feedback_likes, sqlite_sequence, inflight>>

\* reset_intake with `AND LOWER(meal) = ?` added to the DELETE
reset_intake_of_meal(user_id, form, today) ==
    LET meal == lower(IF OrElse(form.meal, "") # "" THEN form.meal[1] ELSE "breakfast")
        date_str == IF OrElse(form.date, "") # "" THEN form.date[1] ELSE today
        Kept(um) == ~(um.user_id = user_id /\ um.date = date_str
                      /\ lower(um.meal) = meal)
    IN  /\ user_meals' = SelectSeq(user_meals, Kept)
        /\ response' = NoPage
        /\ UNCHANGED <<menu_items, user_preferences, item_feedback, feedback,
                       feedback_likes, sqlite_sequence, inflight>>

\* POST /reset_intake: DELETE FROM user_meals WHERE user_id = ? AND date = ?
reset_intake(user_id, form, today) ==
    LET meal == lower(IF OrElse(form.meal, "") # "" THEN form.meal[1] ELSE "breakfast")
        date_str == IF OrElse(form.date, "") # "" THEN form.date[1] ELSE today
        Kept(um) == ~(um.user_id = user_id /\ um.date = date_str)
    IN  /\ user_meals' = SelectSeq(user_meals, Kept)
        /\ response' = NoPage
        /\ UNCHANGED <<menu_items, user_preferences, item_feedback, feedback,
                       feedback_likes, sqlite_sequence, inflight>>

\* POST /preferences statement by statement, handled by thread t.  First
\* statement: existing = SELECT id FROM user_preferences WHERE user_id = ?
preferences_select(t, user_id, form) ==
    LET IsUser(p) == p.user_id = user_id
    IN  /\ inflight[t] = Idle
        /\ inflight' = [inflight EXCEPT ![t] =
                            [op |-> "preferences", user_id |-> user_id, form |-> form,
                             existing |-> SelectSeq(user_preferences, IsUser)]]
        /\ UNCHANGED <<menu_items, user_preferences, user_meals, item_feedback,
                       feedback, feedback_likes, sqlite_sequence, response>>

\* Second statement: `if existing:` UPDATE ... WHERE user_id = ?, `else:`
\* INSERT; then the redirect
preferences_write(t) ==
    LET user_id == inflight[t].user_id
        form == inflight[t].form
        Row(id) == [id |-> id, user_id |-> user_id,
                    dietary_restrictions |-> Some(join(form.dietary, ", ")),
                    wellness_goal |-> form.wellness_goal,
                    fav_cuisines |-> form.fav_cuisines,
                    disliked_items |-> form.disliked_items]
    IN  /\ inflight[t].op = "preferences"
        /\ user_preferences' =
              IF inflight[t].existing # <<>>
              THEN [i \in 1..Len(user_preferences) |->
                       IF user_preferences[i].user_id = user_id
                       THEN Row(user_preferences[i].id) ELSE user_preferences[i]]
              ELSE Append(user_preferences, Row(Len(user_preferences) + 1))
        /\ inflight' = [inflight EXCEPT ![t] = Idle]
        /\ response' = NoPage
        /\ UNCHANGED <<menu_items, user_meals, item_feedback, feedback,
                       feedback_likes, sqlite_sequence>>

\* int(text): the integer of an optionally signed decimal numeral between
\* optional spaces, None where int raises ValueError
int(text) ==
    LET t == strip(text)
        signed == t # "" /\ (Chr(t, 1) = "-" \/ Chr(t, 1) = "+")
        digits == IF signed THEN SubSeq(t, 2, Len(t)) ELSE t
    IN  IF digits # "" /\ \A i \in 1..Len(digits) : contains(Chr(digits, i), DIGITS)
        THEN Some(IF signed /\ Chr(t, 1) = "-" THEN 0 - digits_value(digits)
                  ELSE digits_value(digits))
        ELSE None

\* item_feedback_select without the test `rating < 1 or rating > 5`
item_feedback_any_rating(t, user_id, form) ==
    LET menu_item_id == form.menu_item_id
        rating_str == form.rating
        rating == int(rating_str[1])
        IsExisting(r) == /\ r.user_id = user_id
                         /\ r.menu_item_id = to_integer(menu_item_id[1])
    IN  /\ inflight[t] = Idle
        /\ inflight' =
              IF \/ OrElse(menu_item_id, "") = "" \/ OrElse(rating_str, "") = ""
                 \/ rating = None
              THEN inflight
              ELSE [inflight EXCEPT ![t] =
                       [op |-> "item_feedback", user_id |-> user_id,
                        menu_item_id |-> to_integer(menu_item_id[1]),
                        rating_str |-> rating_str, rating |-> rating[1],
                        existing |-> SelectSeq(item_feedback, IsExisting)]]
        /\ response' = NoPage
        /\ UNCHANGED <<menu_items, user_preferences, user_meals, item_feedback,
                       feedback, feedback_likes, sqlite_sequence>>

\* POST /item_feedback statement by statement, handled by thread t.  The
\* validation, which may return at once, and the first statement:
\* existing = SELECT id FROM item_feedback WHERE user_id = ? AND menu_item_id = ?
item_feedback_select(t, user_id, form) ==
    LET menu_item_id == form.menu_item_id
        rating_str == form.rating
        rating == int(rating_str[1])
        IsExisting(r) == /\ r.user_id = user_id
                         /\ r.menu_item_id = to_integer(menu_item_id[1])
    IN  /\ inflight[t] = Idle
        /\ inflight' =
              IF \/ OrElse(menu_item_id, "") = "" \/ OrElse(rating_str, "") = ""
                 \/ rating = None
                 \/ rating[1] < 1 \/ rating[1] > 5
              THEN inflight
              ELSE [inflight EXCEPT ![t] =
                       [op |-> "item_feedback", user_id |-> user_id,
                        menu_item_id |-> to_integer(menu_item_id[1]),
                        rating_str |-> rating_str, rating |-> rating[1],
                        existing |-> SelectSeq(item_feedback, IsExisting)]]
        /\ response' = NoPage
        /\ UNCHANGED <<menu_items, user_preferences, user_meals, item_feedback,
                       feedback, feedback_likes, sqlite_sequence>>

\* Second statement: `if existing:` UPDATE ... WHERE id = existing[0]["id"],
\* `else:` INSERT, which raises and stores nothing where it breaks the
\* foreign key; then the redirect
item_feedback_write(t) ==
    LET call == inflight[t]
    IN  /\ call.op = "item_feedback"
        /\ IF call.existing # <<>>
           THEN /\ item_feedback' =
                      [i \in 1..Len(item_feedback) |->
                          IF item_feedback[i].id = call.existing[1].id
                          THEN [item_feedback[i] EXCEPT !.rating = call.rating]
                          ELSE item_feedback[i]]
                /\ UNCHANGED sqlite_sequence
           ELSE IF references_menu_item(call.menu_item_id)
           THEN /\ sqlite_sequence.item_feedback < MaxLogged
                /\ item_feedback' =
                      Append(item_feedback,
                             [id |-> sqlite_sequence.item_feedback + 1,
                              user_id |-> call.user_id,
                              menu_item_id |-> call.menu_item_id,
                              rating |-> call.rating])
                /\ sqlite_sequence' = [sqlite_sequence EXCEPT !.item_feedback = @ + 1]
           ELSE UNCHANGED <<item_feedback, sqlite_sequence>>
        /\ inflight' = [inflight EXCEPT ![t] = Idle]
        /\ response' = NoPage
        /\ UNCHANGED <<menu_items, user_preferences, user_meals, feedback,
                       feedback_likes>>

\* scrape_huds.py, scrape_day statement by statement.  The ids of the
\* menu items of a date: SELECT id FROM menu_items WHERE date = ?
ids_of_date(date_iso) ==
    {menu_items[i].id : i \in {j \in 1..Len(menu_items) : menu_items[j].date = date_iso}}

\* First statement: DELETE FROM user_meals WHERE menu_item_id IN (...)
scrape_delete_user_meals(today) ==
    LET Kept(um) == um.menu_item_id \notin ids_of_date(today)
    IN  /\ inflight[Scraper] = Idle
        /\ user_meals' = SelectSeq(user_meals, Kept)
        /\ inflight' = [inflight EXCEPT ![Scraper] =
                            [op |-> "scrape_day", pc |-> "user_meals deleted",
                             date_iso |-> today, items |-> <<>>]]
        /\ UNCHANGED <<menu_items, user_preferences, item_feedback, feedback,
                       feedback_likes, sqlite_sequence, response>>

\* Second statement: DELETE FROM item_feedback WHERE menu_item_id IN (...)
scrape_delete_item_feedback ==
    LET call == inflight[Scraper]
        Kept(r) == r.menu_item_id \notin ids_of_date(call.date_iso)
    IN  /\ call.op = "scrape_day" /\ call.pc = "user_meals deleted"
        /\ item_feedback' = SelectSeq(item_feedback, Kept)
        /\ inflight' = [inflight EXCEPT ![Scraper].pc = "item_feedback deleted"]
        /\ UNCHANGED <<menu_items, user_preferences, user_meals, feedback,
                       feedback_likes, sqlite_sequence, response>>

\* Third statement: DELETE FROM menu_items WHERE date = ?, which raises and
\* ends the script where a row of user_meals or item_feedback still refers
\* to one of the items; then the three pages are fetched and parsed
scrape_delete_menu_items ==
    LET call == inflight[Scraper]
        Kept(m) == m.date # call.date_iso
        referred == {user_meals[i].menu_item_id : i \in 1..Len(user_meals)}
                    \cup {item_feedback[i].menu_item_id : i \in 1..Len(item_feedback)}
    IN  /\ call.op = "scrape_day" /\ call.pc = "item_feedback deleted"
        /\ IF foreign_keys /\ referred \cap ids_of_date(call.date_iso) # {}
           THEN /\ inflight' = [inflight EXCEPT ![Scraper] = Idle]
                /\ UNCHANGED menu_items
           ELSE /\ menu_items' = SelectSeq(menu_items, Kept)
                /\ inflight' = [inflight EXCEPT ![Scraper].pc = "menu_items deleted",
                                                ![Scraper].items = ScrapedItems]
        /\ UNCHANGED <<user_preferences, user_meals, item_feedback, feedback,
                       feedback_likes, sqlite_sequence, response>>

\* insert_items, one pass of its loop: INSERT the next scraped item; after
\* the last one scrape_day is done
insert_items ==
    LET call == inflight[Scraper]
        item == Head(call.items)
    IN  /\ call.op = "scrape_day" /\ call.pc = "menu_items deleted"
        /\ menu_items' =
              Append(menu_items,
                     [id |-> sqlite_sequence.menu_items + 1, date |-> call.date_iso,
                      meal |-> item.meal, location |-> "Annenberg", name |-> item.name,
                      category |-> None, calories |-> item.calories,
                      protein |-> item.protein, carbs |-> item.carbs, fat |-> item.fat,
                      tags |-> Some("")])
        /\ sqlite_sequence' = [sqlite_sequence EXCEPT !.menu_items = @ + 1]
        /\ inflight' = IF Tail(call.items) = <<>>
                       THEN [inflight EXCEPT ![Scraper] = Idle]
                       ELSE [inflight EXCEPT ![Scraper].items = Tail(call.items)]
        /\ UNCHANGED <<user_preferences, user_meals, item_feedback, feedback,
                       feedback_likes, response>>

\* POST /feedback: a new entry of the feedback wall, with likes at its
\* DEFAULT 0
feedback_post(user_id, form) ==
    LET text == strip(IF form.text = None THEN "" ELSE form.text[1])
    IN  /\ IF text # "" /\ Len(text) <= 800
           THEN /\ sqlite_sequence.feedback < MaxPosts
                /\ feedback' = Append(feedback,
                                      [id |-> sqlite_sequence.feedback + 1,
                                       user_id |-> user_id, text |-> text, likes |-> 0])
                /\ sqlite_sequence' = [sqlite_sequence EXCEPT !.feedback = @ + 1]
           ELSE UNCHANGED <<feedback, sqlite_sequence>>
        /\ response' = NoPage
        /\ UNCHANGED <<menu_items, user_preferences, user_meals, item_feedback,
                       feedback_likes, inflight>>

\* POST /feedback_like statement by statement, handled by thread t.  The
\* test of feedback_id, which may return at once, and the first statement:
\* exists = SELECT 1 FROM feedback_likes WHERE user_id = ? AND feedback_id = ?
feedback_like_select(t, user_id, form) ==
    LET feedback_id == form.feedback_id
        IsLike(l) == l.user_id = user_id /\ l.feedback_id = to_integer(feedback_id[1])
    IN  /\ inflight[t] = Idle
        /\ inflight' =
              IF OrElse(feedback_id, "") = "" THEN inflight
              ELSE [inflight EXCEPT ![t] =
                       [op |-> "feedback_like", pc |-> "selected", user_id |-> user_id,
                        feedback_id |-> to_integer(feedback_id[1]),
                        exists |-> SelectSeq(feedback_likes, IsLike) # <<>>]]
        /\ response' = NoPage
        /\ UNCHANGED <<menu_items, user_preferences, user_meals, item_feedback,
                       feedback, feedback_likes, sqlite_sequence>>

\* Second statement: `if exists:` DELETE FROM feedback_likes WHERE user_id = ?
\* AND feedback_id = ?, `else:` INSERT, which raises and ends the request
\* where no feedback entry has the id
feedback_like_toggle(t) ==
    LET call == inflight[t]
        Kept(l) == ~(l.user_id = call.user_id /\ l.feedback_id = call.feedback_id)
        references == foreign_keys =>
                          \E i \in 1..Len(feedback) : feedback[i].id = call.feedback_id
    IN  /\ call.op = "feedback_like" /\ call.pc = "selected"
        /\ IF call.exists
           THEN /\ feedback_likes' = SelectSeq(feedback_likes, Kept)
                /\ inflight' = [inflight EXCEPT ![t].pc = "toggled"]
                /\ UNCHANGED sqlite_sequence
           ELSE IF references
           THEN /\ sqlite_sequence.feedback_likes < MaxLikes
                /\ feedback_likes' =
                      Append(feedback_likes,
                             [id |-> sqlite_sequence.feedback_likes + 1,
                              user_id |-> call.user_id,
                              feedback_id |-> call.feedback_id])
                /\ sqlite_sequence' =
                      [sqlite_sequence EXCEPT !.feedback_likes = @ + 1]
                /\ inflight' = [inflight EXCEPT ![t].pc = "toggled"]
           ELSE /\ inflight' = [inflight EXCEPT ![t] = Idle]
                /\ UNCHANGED <<feedback_likes, sqlite_sequence>>
        /\ UNCHANGED <<menu_items, user_preferences, user_meals, item_feedback,
                       feedback, response>>

\* Third statement: UPDATE feedback SET likes = likes - 1 WHERE id = ? after
\* the DELETE, likes + 1 after the INSERT; then the page is rendered
feedback_like_count(t) ==
    LET call == inflight[t]
    IN  /\ call.op = "feedback_like" /\ call.pc = "toggled"
        /\ feedback' = [i \in 1..Len(feedback) |->
                           IF feedback[i].id = call.feedback_id
                           THEN [feedback[i] EXCEPT
                                    !.likes = IF call.exists THEN @ - 1 ELSE @ + 1]
                           ELSE feedback[i]]
        /\ inflight' = [inflight EXCEPT ![t] = Idle]
        /\ UNCHANGED <<menu_items, user_preferences, user_meals, item_feedback,
                       feedback_likes, sqlite_sequence, response>>

(***************************************************************************)
(* The application: ingestion, preferences and the dashboard               *)
(***************************************************************************)
IdleTxt == txt = "" /\ txt_pc = "idle" /\ txt_tokens = <<>> /\ txt_flags = {}
IdleFilter == f_item = None /\ f_flags = {} /\ f_pc = "idle" /\ f_ret = FALSE
IdleScore == s_item = None /\ s_prefs = None /\ s_pc = "idle" /\ score = 0
IdleDb ==
    /\ menu_items = <<>>
    /\ user_preferences = <<>>
    /\ user_meals = <<>>
    /\ item_feedback = <<>>
    /\ feedback = <<>>
    /\ feedback_likes = <<>>
    /\ sqlite_sequence = NoSequence
    /\ inflight = [t \in Processes |-> Idle]
    /\ response = NoPage

Init == IdleDb /\ IdleTxt /\ IdleFilter /\ IdleScore

\* The CSV rows are imported once each, in any order.  A render depends on
\* the tables and the request alone, so one that follows another render
\* reaches no state that one following a write does not: Next takes the
\* renders that follow a write.
Imported(row) == \E i \in 1..Len(menu_items) : menu_items[i] = MenuRow(i, row)

Next ==
    \/ \E row \in CsvRows :
           /\ ~Imported(row)
           /\ import_menu(row)
           /\ UNCHANGED <<txtVars, filterVars, scoreVars>>
    \/ \E u \in Users, form \in PrefForms :
           preferences(u, form) /\ UNCHANGED <<txtVars, filterVars, scoreVars>>
    \/ \E u \in Users, d \in DateArgs, m \in MealArgs :
           /\ response.kind = "none"
           /\ dashboard(u, d, m)
           /\ UNCHANGED <<txtVars, filterVars, scoreVars>>

Spec == Init /\ [][Next]_vars

(***************************************************************************)
(* Meal logging: the importer, add_meal, remove_meal, reset_intake and the *)
(* dashboard's daily totals, for two users                                 *)
(***************************************************************************)
NextIntake ==
    \/ \E k \in 1..Len(IntakeCsv) :
           /\ k = Len(menu_items) + 1
           /\ import_menu(IntakeCsv[k])
           /\ UNCHANGED <<txtVars, filterVars, scoreVars>>
    \/ \E u \in Diners, form \in AddMealForms, today \in Todays :
           add_meal(u, form, today) /\ UNCHANGED <<txtVars, filterVars, scoreVars>>
    \/ \E u \in Diners, form \in RemoveMealForms :
           remove_meal(u, form) /\ UNCHANGED <<txtVars, filterVars, scoreVars>>
    \/ \E u \in Diners, form \in ResetIntakeForms, today \in Todays :
           reset_intake(u, form, today) /\ UNCHANGED <<txtVars, filterVars, scoreVars>>
    \/ \E u \in Diners, d \in DateArgs, m \in MealArgs :
           /\ response.kind = "none"
           /\ dashboard(u, d, m)
           /\ UNCHANGED <<txtVars, filterVars, scoreVars>>

SpecIntake == Init /\ [][NextIntake]_vars

\* The same requests without the dashboard, which writes no table
NextLog ==
    \/ \E k \in 1..Len(IntakeCsv) :
           /\ k = Len(menu_items) + 1
           /\ import_menu(IntakeCsv[k])
           /\ UNCHANGED <<txtVars, filterVars, scoreVars>>
    \/ \E u \in Diners, form \in AddMealForms, today \in Todays :
           add_meal(u, form, today) /\ UNCHANGED <<txtVars, filterVars, scoreVars>>
    \/ \E u \in Diners, form \in RemoveMealForms :
           remove_meal(u, form) /\ UNCHANGED <<txtVars, filterVars, scoreVars>>
    \/ \E u \in Diners, form \in ResetIntakeForms, today \in Todays :
           reset_intake(u, form, today) /\ UNCHANGED <<txtVars, filterVars, scoreVars>>

SpecLog == Init /\ [][NextLog]_vars

(***************************************************************************)
(* POST /preferences on the threads of the development server              *)
(***************************************************************************)
NextPrefs ==
    \/ \E t \in Threads, u \in Diners, form \in PrefForms :
           preferences_select(t, u, form) /\ UNCHANGED <<txtVars, filterVars, scoreVars>>
    \/ \E t \in Threads :
           preferences_write(t) /\ UNCHANGED <<txtVars, filterVars, scoreVars>>

SpecPrefs == Init /\ [][NextPrefs]_vars

(***************************************************************************)
(* Ingestion again and again, by import_menu.py and by scrape_day, while   *)
(* one user logs and rates items                                           *)
(***************************************************************************)
NextIngest ==
    \/ \E k \in 1..Len(ReimportCsv) :
           /\ sqlite_sequence.menu_items < MaxItems
           /\ import_menu(ReimportCsv[k])
           /\ UNCHANGED <<txtVars, filterVars, scoreVars>>
    \/ \E today \in Todays :
           /\ sqlite_sequence.menu_items + Len(ScrapedItems) <= MaxItems
           /\ scrape_delete_user_meals(today)
           /\ UNCHANGED <<txtVars, filterVars, scoreVars>>
    \/ scrape_delete_item_feedback /\ UNCHANGED <<txtVars, filterVars, scoreVars>>
    \/ scrape_delete_menu_items /\ UNCHANGED <<txtVars, filterVars, scoreVars>>
    \/ insert_items /\ UNCHANGED <<txtVars, filterVars, scoreVars>>
    \/ \E u \in Users, id \in ItemIds, today \in Todays :
           /\ add_meal(u, [menu_item_id |-> id, meal |-> None, date |-> None], today)
           /\ UNCHANGED <<txtVars, filterVars, scoreVars>>
    \/ \E t \in Threads, u \in Users, id \in ItemIds :
           /\ Alone(t)
           /\ item_feedback_select(t, u, [menu_item_id |-> id, rating |-> Some("5")])
           /\ UNCHANGED <<txtVars, filterVars, scoreVars>>
    \/ \E t \in Threads :
           item_feedback_write(t) /\ UNCHANGED <<txtVars, filterVars, scoreVars>>

SpecIngest == Init /\ [][NextIngest]_vars

(***************************************************************************)
(* Ratings: POST /item_feedback requests of two users, each handled to     *)
(* completion, and the ratings the dashboard shows                         *)
(***************************************************************************)
NextRatings ==
    \/ \E k \in 1..Len(IntakeCsv) :
           /\ k = Len(menu_items) + 1
           /\ import_menu(IntakeCsv[k])
           /\ UNCHANGED <<txtVars, filterVars, scoreVars>>
    \/ \E t \in Threads, u \in Diners, form \in ItemFeedbackForms :
           /\ Alone(t)
           /\ item_feedback_select(t, u, form)
           /\ UNCHANGED <<txtVars, filterVars, scoreVars>>
    \/ \E t \in Threads :
           item_feedback_write(t) /\ UNCHANGED <<txtVars, filterVars, scoreVars>>
    \/ \E u \in Diners :
           /\ response.kind = "none"
           /\ inflight = [t \in Processes |-> Idle]
           /\ dashboard(u, None, None)
           /\ UNCHANGED <<txtVars, filterVars, scoreVars>>

SpecRatings == Init /\ [][NextRatings]_vars

(***************************************************************************)
(* The feedback wall: posts, and likes toggled on the server's threads     *)
(***************************************************************************)
NextLikes ==
    \/ \E u \in Diners, form \in FeedbackForms :
           feedback_post(u, form) /\ UNCHANGED <<txtVars, filterVars, scoreVars>>
    \/ \E t \in Threads, u \in Diners, form \in FeedbackLikeForms :
           feedback_like_select(t, u, form) /\ UNCHANGED <<txtVars, filterVars, scoreVars>>
    \/ \E t \in Threads :
           feedback_like_toggle(t) /\ UNCHANGED <<txtVars, filterVars, scoreVars>>
    \/ \E t \in Threads :
           feedback_like_count(t) /\ UNCHANGED <<txtVars, filterVars, scoreVars>>

SpecLikes == Init /\ [][NextLikes]_vars

(***************************************************************************)
(* The two parsers of dietary_restrictions, applied to one text            *)
(***************************************************************************)
\* The most tokens a dietary_restrictions text is built from
MaxTokens == 2

TokenWords == {"vegetarian", "vegan", "Vegan", "gluten-free", " nut-free ", ""}
Separators == {",", ", ", ";", "; "}

RECURSIVE TextsOf(_)
TextsOf(n) ==
    IF n = 1 THEN TokenWords
    ELSE {t \o sep \o w : t \in TextsOf(n - 1), sep \in Separators, w \in TokenWords}

DietaryTexts == UNION {TextsOf(n) : n \in 1..MaxTokens}

InitText ==
    /\ IdleDb /\ IdleFilter /\ IdleScore
    /\ txt \in DietaryTexts
    /\ txt_pc = "start"
    /\ txt_tokens = <<>>
    /\ txt_flags = {}

\* score_menu_item reads the text: dietary = parse_list_field(...)
ParseForScorer ==
    /\ txt_pc = "start"
    /\ txt_tokens' = parse_list_field(Some(txt))
    /\ txt_pc' = "parsed"
    /\ UNCHANGED <<txt, txt_flags>>

\* dashboard reads the same text: dietary_flags = _load_dietary_flags(prefs)
ParseForFilter ==
    /\ txt_pc = "parsed"
    /\ txt_flags' = _load_dietary_flags(Some([dietary_restrictions |-> Some(txt)]))
    /\ txt_pc' = "done"
    /\ UNCHANGED <<txt, txt_tokens>>

NextText ==
    \/ ParseForScorer /\ UNCHANGED <<dbVars, filterVars, scoreVars>>
    \/ ParseForFilter /\ UNCHANGED <<dbVars, filterVars, scoreVars>>

SpecText == InitText /\ [][NextText]_vars

(***************************************************************************)
(* _violates_dietary_restrictions, applied to one item and flag set        *)
(***************************************************************************)
FilterNames ==
    { "Chicken Parm", "BEEF Stew", "Pulled Pork", "Bacon", "Graham Cracker",
      "Turkey Sandwich", "Sausage Patty", "Pepperoni Pizza", "Meatballs",
      "Steak Fries", "Fish Taco", "Salmon", "Tuna Melt", "Shrimp Scampi",
      "Crab Cake", "Lobster Roll", "Cod", "Tilapia", "Cheese Omelette",
      "Eggplant", "Oat Milk", "Yogurt Parfait", "Butternut Squash",
      "Ice Cream", "Tofu Scramble", "Garden Salad", "" }

FilterTags == {None, Some(""), Some("vegetarian"), Some("Contains Egg"), Some("vegan")}

FlagSets == SUBSET {"vegetarian", "vegan", "gluten-free"}

InitFilter ==
    /\ IdleDb /\ IdleTxt /\ IdleScore
    /\ \E name \in FilterNames, tags \in FilterTags :
           f_item = Some([name |-> name, tags |-> tags])
    /\ f_flags \in FlagSets
    /\ f_pc = "start"
    /\ f_ret = FALSE

CallFilter ==
    /\ f_pc = "start"
    /\ f_ret' = _violates_dietary_restrictions(f_item[1], f_flags)
    /\ f_pc' = "done"
    /\ UNCHANGED <<f_item, f_flags>>

NextFilter == CallFilter /\ UNCHANGED <<dbVars, txtVars, scoreVars>>

SpecFilter == InitFilter /\ [][NextFilter]_vars

(***************************************************************************)
(* score_menu_item, block by block, on one item and preferences row        *)
(***************************************************************************)
ScoredItems ==
    [name : {"Belgian Waffles", "Turkey Sandwich", "Egg Salad"},
     tags : {None, Some("Vegetarian, gluten-free"), Some("vegan,vegetarian")},
     calories : {None, Some(0), Some(400)},
     protein : {None, Some(20)}]

ScoredPrefs ==
    [dietary_restrictions : {Some(""), Some("vegetarian"), Some("Vegan, Gluten-Free"),
                             Some("vegetarian; vegan")},
     wellness_goal : {None, Some("Gain Muscle"), Some("lose weight"),
                      Some("MAINTAIN"), Some("bulk")},
     fav_cuisines : {Some(""), Some("waffle, Salad"), Some("egg,,egg")},
     disliked_items : {None, Some("turkey, sandwich"), Some(" , ")}]

InitScore ==
    /\ IdleDb /\ IdleTxt /\ IdleFilter
    /\ \E item \in ScoredItems : s_item = Some(item)
    /\ \/ s_prefs = None
       \/ \E prefs \in ScoredPrefs : s_prefs = Some(prefs)
    /\ s_pc = "start"
    /\ score = 0

\* `if not prefs`: the macro heuristic, and return
ScoreColdStart ==
    /\ s_pc = "start" /\ s_prefs = None
    /\ score' = cold_start(s_item[1])
    /\ s_pc' = "done"
    /\ UNCHANGED <<s_item, s_prefs>>

Locals == ScoreLocals(s_item[1], s_prefs[1])

\* score = 0.0, then block 1
ScoreDietary ==
    /\ s_pc = "start" /\ s_prefs # None
    /\ score' = dietary_penalty(0, Locals.dietary, Locals.tags)
    /\ s_pc' = "dietary"
    /\ UNCHANGED <<s_item, s_prefs>>

ScoreGoal ==
    /\ s_pc = "dietary"
    /\ score' = goal_term(score, Locals.goal, Locals.calories, Locals.protein)
    /\ s_pc' = "goal"
    /\ UNCHANGED <<s_item, s_prefs>>

ScoreFavs ==
    /\ s_pc = "goal"
    /\ score' = fav_bonus(score, Locals.fav_cuisines, Locals.name)
    /\ s_pc' = "favs"
    /\ UNCHANGED <<s_item, s_prefs>>

ScoreDislikes ==
    /\ s_pc = "favs"
    /\ score' = dislike_penalty(score, Locals.dislikes, Locals.name)
    /\ s_pc' = "done"
    /\ UNCHANGED <<s_item, s_prefs>>

NextScore ==
    \/ ScoreColdStart /\ UNCHANGED <<dbVars, txtVars, filterVars>>
    \/ ScoreDietary /\ UNCHANGED <<dbVars, txtVars, filterVars>>
    \/ ScoreGoal /\ UNCHANGED <<dbVars, txtVars, filterVars>>
    \/ ScoreFavs /\ UNCHANGED <<dbVars, txtVars, filterVars>>
    \/ ScoreDislikes /\ UNCHANGED <<dbVars, txtVars, filterVars>>

SpecScore == InitScore /\ [][NextScore]_vars

\* The blocks, run in turn, return what score_menu_item returns
BlocksAgree == s_pc = "done" => score = score_menu_item(s_item[1], s_prefs)

(***************************************************************************)
(* Properties of the dashboard's lists                                     *)
(***************************************************************************)
Rendered == response.kind = "dashboard"
Recs == response.recommendations
Shown == response.items

Range(seq) == {seq[i] : i \in 1..Len(seq)}
Min(a, b) == IF a <= b THEN a ELSE b
CategoriesOf(list) == {infer_category(list[i].name) : i \in 1..Len(list)}

\* The place of a row in a list (rows differ in id), 0 when it is not there
PosIn(row, list) ==
    IF \E i \in 1..Len(list) : list[i].id = row.id
    THEN CHOOSE i \in 1..Len(list) : list[i].id = row.id
    ELSE 0

\* The score the render gave an item it scored
ScoreOf(row) == response.scored[CHOOSE i \in 1..Len(response.scored) :
                                    response.scored[i][1].id = row.id][2]

\* C1. Category diversity: no two recommended items have the same category
\* under infer_category.
C1_CategoryDiversity ==
    Rendered =>
        \A i, j \in 1..Len(Recs) :
            i # j => infer_category(Recs[i].name) # infer_category(Recs[j].name)

\* Three recommendations made from a list that holds two items of one category
C1_Witness ==
    /\ Rendered
    /\ Len(Recs) = 3
    /\ Cardinality(CategoriesOf(Shown)) < Len(Shown)

\* C2. Cardinality: the recommendation list is no longer than min(3, number
\* of distinct categories among the items that pass the dietary filter); it
\* is empty for an empty batch and has at most one item when all admissible
\* items have one category.
C2_Cardinality ==
    Rendered =>
        /\ Len(Recs) <= Min(3, Cardinality(CategoriesOf(Shown)))
        /\ response.raw_items = <<>> => Len(Recs) = 0
        /\ Cardinality(CategoriesOf(Shown)) = 1 => Len(Recs) <= 1

\* Four admissible items of four categories, of which three are recommended
C2_Witness ==
    /\ Rendered
    /\ Cardinality(CategoriesOf(Shown)) = 4
    /\ Len(Recs) = 3

\* C3. Ordering: the recommendation list is in non-increasing score order,
\* two recommended items of equal score are in the order they have in the
\* filtered list, and the list is the score-descending, stable arrangement of
\* the filtered items restricted to the first item of each category.
C3_Ordering ==
    Rendered =>
        /\ \A i, j \in 1..Len(Recs) :
               i < j => /\ ScoreOf(Recs[i]) >= ScoreOf(Recs[j])
                        /\ ScoreOf(Recs[i]) = ScoreOf(Recs[j])
                               => PosIn(Recs[i], Shown) < PosIn(Recs[j], Shown)
        /\ LET sorted == response.scored
               First(i) == \A j \in 1..(i - 1) :
                               infer_category(sorted[j][1].name)
                                   # infer_category(sorted[i][1].name)
               firsts == SelectSeq([i \in 1..Len(sorted) |-> i], First)
           IN  /\ Len(sorted) = Len(Shown)
               /\ \A i \in 1..Len(Shown) : PosIn(Shown[i], [k \in 1..Len(sorted) |-> sorted[k][1]]) > 0
               /\ \A i, j \in 1..Len(sorted) :
                      i < j => /\ sorted[i][2] >= sorted[j][2]
                               /\ sorted[i][2] = sorted[j][2]
                                      => PosIn(sorted[i][1], Shown) < PosIn(sorted[j][1], Shown)
               /\ Len(Recs) = Min(3, Len(firsts))
               /\ \A k \in 1..Len(Recs) : Recs[k] = sorted[firsts[k]][1]

\* Two recommended items of different categories and equal score
C3_Witness ==
    /\ Rendered
    /\ \E i, j \in 1..Len(Recs) : i < j /\ ScoreOf(Recs[i]) = ScoreOf(Recs[j])

\* C5. Filtering precedes everything shown: the displayed list is exactly
\* the admissible items of the batch in input order, every recommended item
\* is in the displayed list, and no item that fails the dietary filter is in
\* either list.
C5_FilterFirst ==
    Rendered =>
        LET raw == response.raw_items
            Fails(item) == _violates_dietary_restrictions(item, response.dietary_flags)
        IN  /\ \A i \in 1..Len(raw) : (PosIn(raw[i], Shown) > 0) <=> ~Fails(raw[i])
            /\ \A i \in 1..Len(Shown) : PosIn(Shown[i], raw) > 0
            /\ \A i, j \in 1..Len(Shown) :
                   i < j => PosIn(Shown[i], raw) < PosIn(Shown[j], raw)
            /\ \A i \in 1..Len(Recs) : Recs[i] \in Range(Shown)
            /\ \A i \in 1..Len(Shown) : ~Fails(Shown[i])
            /\ \A i \in 1..Len(Recs) : ~Fails(Recs[i])

\* A render that dropped an item of the batch and recommended another
C5_Witness ==
    /\ Rendered
    /\ Len(Shown) < Len(response.raw_items)
    /\ Len(Recs) > 0

(***************************************************************************)
(* Properties of the dietary filter and of the two parsers                 *)
(***************************************************************************)
MeatOrSeafood ==
    {"chicken", "beef", "pork", "bacon", "ham", "turkey", "sausage", "pepperoni",
     "meatball", "meatballs", "steak", "fish", "salmon", "tuna", "shrimp", "crab",
     "lobster", "cod", "tilapia"}
DairyOrEgg == {"cheese", "egg", "eggs", "milk", "yogurt", "butter", "cream"}

\* The lower-cased name and tags of the filtered item
FilterText ==
    lower(f_item[1].name) \o " "
        \o lower(IF f_item[1].tags = None THEN "" ELSE f_item[1].tags[1])

HasWord(words, text) == \E w \in words : contains(w, text)

\* C4. Dietary filter: an item is inadmissible exactly when (a) the flags
\* hold "vegetarian" or "vegan" and the lower-cased name+tags text contains
\* a meat or seafood word, or (b) the flags hold "vegan" and the text
\* contains a dairy or egg word; with neither flag every item is admissible.
C4_DietaryFilter ==
    f_pc = "done" =>
        /\ f_ret <=>
               \/ /\ "vegetarian" \in f_flags \/ "vegan" \in f_flags
                  /\ HasWord(MeatOrSeafood, FilterText)
               \/ /\ "vegan" \in f_flags
                  /\ HasWord(DairyOrEgg, FilterText)
        /\ ("vegetarian" \notin f_flags /\ "vegan" \notin f_flags) => ~f_ret

\* A vegetarian (not vegan) and an item with a dairy word and no meat: kept
C4_Witness ==
    /\ f_pc = "done"
    /\ f_flags = {"vegetarian", "gluten-free"}
    /\ HasWord(DairyOrEgg, FilterText)
    /\ ~HasWord(MeatOrSeafood, FilterText)
    /\ ~f_ret

\* C6. Uniform normalisation: for every dietary_restrictions text, the
\* tokens the scorer gets from parse_list_field and the flags the filter gets
\* from _load_dietary_flags agree on "vegetarian", "vegan" and "gluten-free".
C6_UniformNormalisation ==
    txt_pc = "done" =>
        \A flag \in {"vegetarian", "vegan", "gluten-free"} :
            InList(flag, txt_tokens) <=> flag \in txt_flags

(***************************************************************************)
(* Properties of the scorer                                                *)
(***************************************************************************)
Absent0(x) == IF x = None THEN 0 ELSE x[1]
Calories == Absent0(s_item[1].calories)
Protein == Absent0(s_item[1].protein)

\* C7. Cold-start score: with no preferences record the score is
\* protein*0.3 - calories*0.05, an absent calories or protein counted as 0
\* (20*score = 6*protein - calories), whatever the name and tags; calories
\* 400 and protein 20 give -14 (scaled: -280).
C7_ColdStart ==
    (s_pc = "done" /\ s_prefs = None) =>
        /\ score = 6 * Protein - Calories
        /\ (s_item[1].calories = Some(400) /\ s_item[1].protein = Some(20))
               => score = -280

\* Scenario 3 and an item with no protein figure, both scored
C7_Witness ==
    /\ s_pc = "done"
    /\ s_prefs = None
    /\ s_item[1].calories = Some(400)
    /\ s_item[1].protein = None
    /\ score = -400

UserTokens == Range(parse_list_field(s_prefs[1].dietary_restrictions))
TagTokens == Range(parse_list_field(s_item[1].tags))
Penalty(token, amount) ==
    IF token \in UserTokens /\ token \notin TagTokens THEN -amount ELSE 0

\* C8. Dietary penalty by tag presence: with preferences present the dietary
\* part of the score is -100 if "vegetarian" is among the user's dietary
\* tokens and not among the item's tag tokens, -100 likewise for "vegan",
\* -50 likewise for "gluten-free" (scaled: 2000, 2000, 1000), whatever the
\* item's name.
C8_DietaryPenalty ==
    s_pc = "dietary" =>
        score = Penalty("vegetarian", 2000) + Penalty("vegan", 2000)
                    + Penalty("gluten-free", 1000)

\* A vegan, gluten-free user and a turkey sandwich tagged vegan and
\* vegetarian: only the gluten-free penalty
C8_Witness ==
    /\ s_pc = "dietary"
    /\ s_prefs[1].dietary_restrictions = Some("Vegan, Gluten-Free")
    /\ s_item[1].tags = Some("vegan,vegetarian")
    /\ s_item[1].name = "Turkey Sandwich"
    /\ score = -1000

GoalOf(prefs) == lower(IF prefs.wellness_goal = None THEN "" ELSE prefs.wellness_goal[1])

\* C9. Wellness-goal term: the goal, compared ignoring case, adds
\* +protein*0.6 - calories*0.05 for "gain muscle", -calories*0.1 +
\* protein*0.2 for "lose weight", +protein*0.3 for "maintain" and 0 for any
\* other or absent goal; absent calories and protein count as 0.
C9_GoalTerm ==
    [][(s_pc = "dietary" /\ s_pc' = "goal") =>
           score' - score =
               CASE GoalOf(s_prefs[1]) = "gain muscle" -> 12 * Protein - Calories
                 [] GoalOf(s_prefs[1]) = "lose weight" -> 4 * Protein - 2 * Calories
                 [] GoalOf(s_prefs[1]) = "maintain" -> 6 * Protein
                 [] OTHER -> 0]_vars

\* "MAINTAIN" in capitals, on an item of 400 calories and 20 g protein
C9_Witness ==
    /\ s_pc = "goal"
    /\ s_prefs[1].wellness_goal = Some("MAINTAIN")
    /\ s_prefs[1].dietary_restrictions = Some("")
    /\ s_item[1].calories = Some(400)
    /\ s_item[1].protein = Some(20)
    /\ score = 120

\* The tokens of a list field that are non-empty substrings of the
\* lower-cased item name, counted with their repetitions
Matches(field) ==
    LET tokens == parse_list_field(field)
    IN  Cardinality({i \in 1..Len(tokens) :
                        tokens[i] # "" /\ contains(tokens[i], lower(s_item[1].name))})

\* C10. Keyword term: the score gains +5 for each favourite-cuisine token
\* and -20 for each disliked-item token that is a non-empty substring of the
\* lower-cased item name (scaled: 100 and 400), with no cap; empty tokens
\* add nothing.
C10_KeywordTerm ==
    [][/\ (s_pc = "goal" /\ s_pc' = "favs") =>
              score' - score = 100 * Matches(s_prefs[1].fav_cuisines)
       /\ (s_pc = "favs" /\ s_pc' = "done") =>
              score' - score = -400 * Matches(s_prefs[1].disliked_items)]_vars

\* "egg,,egg" on Egg Salad: two matches and an empty token; then no dislike
C10_Witness ==
    /\ s_pc = "done"
    /\ s_prefs # None
    /\ s_prefs[1].fav_cuisines = Some("egg,,egg")
    /\ s_prefs[1].disliked_items = Some(" , ")
    /\ s_prefs[1].dietary_restrictions = Some("")
    /\ s_prefs[1].wellness_goal = None
    /\ s_item[1].name = "Egg Salad"
    /\ score = 200

(***************************************************************************)
(* Daily totals                                                            *)
(***************************************************************************)
Fields == {"calories", "protein", "carbs", "fat"}

\* The logged-meal rows (positions in user_meals) of user u on date d
LoggedOn(u, d) ==
    {k \in 1..Len(user_meals) : user_meals[k].user_id = u /\ user_meals[k].date = d}

\* Field f of the menu item that logged-meal row k refers to, absent as 0
FieldOf(k, f) ==
    LET hits == {i \in 1..Len(menu_items) : menu_items[i].id = user_meals[k].menu_item_id}
    IN  IF hits = {} THEN 0 ELSE Absent0(menu_items[CHOOSE i \in hits : TRUE][f])

RECURSIVE SumOver(_, _)
SumOver(rows, f) ==
    IF rows = {} THEN 0
    ELSE LET k == CHOOSE k \in rows : TRUE
         IN  FieldOf(k, f) + SumOver(rows \ {k}, f)

\* C11: the four totals a dashboard of user u and date d shows are, field by
\* field, the sum over the logged-meal rows of u on d, of whatever meal, of
\* the field of the row's item, an absent field counting 0 and an item logged
\* k times counting k times; without such rows they are all 0.
C11_DailyTotals ==
    (Rendered /\ response.date # None) =>
        /\ \A f \in Fields :
               response.totals[f] = SumOver(LoggedOn(response.user, response.date[1]), f)
        /\ LoggedOn(response.user, response.date[1]) = {} => response.totals = ZeroTotals

\* A dashboard of a day on which the user logged one item twice, under two
\* meals, the item lacking a field
C11_Witness ==
    /\ Rendered /\ response.date # None
    /\ \E j, k \in LoggedOn(response.user, response.date[1]) :
           /\ j # k
           /\ user_meals[j].menu_item_id = user_meals[k].menu_item_id
           /\ user_meals[j].meal # user_meals[k].meal
    /\ response.totals.calories = 400
    /\ response.totals.carbs = 0

\* The totals a dashboard of user u and date d computes in this state
TotalsOf(u, d) == Aggregate(ZeroTotals, totals_rows(user_meals, menu_items, u, d))

Dates == {"2025-12-05", "2025-12-06"}
Plus(a, b) == [f \in Fields |-> a[f] + b[f]]
Minus(a, b) == [f \in Fields |-> a[f] - b[f]]

\* The four fields of the menu item of this id, absent as 0
ItemValue(id) ==
    LET hits == {i \in 1..Len(menu_items) : menu_items[i].id = id}
    IN  [f \in Fields |->
            IF hits = {} THEN 0 ELSE Absent0(menu_items[CHOOSE i \in hits : TRUE][f])]

\* user_meals without its k-th row
Without(k) == SubSeq(user_meals, 1, k - 1) \o SubSeq(user_meals, k + 1, Len(user_meals))

\* C12: the totals of a list A followed by a list B are the field-by-field
\* sum of the totals of A and of B (every split of every list the dashboard
\* aggregates); a step that logs one item X for user u on date d raises each
\* total of u on d by X's value of the field, absent as 0, and a step that
\* removes one logged row lowers it by the same amount.
C12_Additivity ==
    [][\A u \in Diners, d \in Dates :
         LET rows == totals_rows(user_meals, menu_items, u, d)
         IN  /\ \A k \in 0..Len(rows) :
                    LET tot == Aggregate(ZeroTotals, rows)
                        A == Aggregate(ZeroTotals, SubSeq(rows, 1, k))
                        B == Aggregate(ZeroTotals, SubSeq(rows, k + 1, Len(rows)))
                    IN  \A f \in Fields : tot[f] = Plus(A, B)[f]
             /\ (/\ Len(user_meals') = Len(user_meals) + 1
                 /\ user_meals'[Len(user_meals')].user_id = u
                 /\ user_meals'[Len(user_meals')].date = d) =>
                    \A f \in Fields :
                        TotalsOf(u, d)'[f] =
                            Plus(TotalsOf(u, d),
                                 ItemValue(user_meals'[Len(user_meals')].menu_item_id))[f]
             /\ \A k \in LoggedOn(u, d) :
                    user_meals' = Without(k) =>
                        \A f \in Fields :
                            TotalsOf(u, d)'[f] =
                                Minus(TotalsOf(u, d),
                                      ItemValue(user_meals[k].menu_item_id))[f]
       ]_vars

\* Two items were logged for one day and the first log was removed: the
\* day's totals are those of the second item
C12_Witness ==
    /\ Len(user_meals) = 1
    /\ user_meals[1].id = 2
    /\ user_meals[1].menu_item_id = 2
    /\ sqlite_sequence.user_meals = 2
    /\ TotalsOf(user_meals[1].user_id, user_meals[1].date).calories = 0 - 50

\* C13: in every state reached by menu ingestion, add_meal, remove_meal and
\* reset_intake, each of the four daily totals a dashboard shows is >= 0.
C13_TotalsNonNegative ==
    Rendered => \A f \in Fields : response.totals[f] >= 0

(***************************************************************************)
(* Stored preferences                                                      *)
(***************************************************************************)
\* C14: after any POST /preferences requests, two of one user interleaved
\* between the SELECT and the INSERT or UPDATE included, user_preferences
\* holds at most one row for each user_id.
C14_OneRowPerUser ==
    \A u \in Diners :
        Cardinality({i \in 1..Len(user_preferences) : user_preferences[i].user_id = u}) <= 1

(***************************************************************************)
(* Re-ingestion                                                            *)
(***************************************************************************)
\* The stored menu items of a date without their ids, in rowid order
StoredFor(items, d) ==
    LET OfDate(m) == m.date = d
        rows == SelectSeq(items, OfDate)
    IN  [i \in 1..Len(rows) |-> [f \in DOMAIN rows[i] \ {"id"} |-> rows[i][f]]]

\* The batch a run of scrape_day for date d inserts, without ids
ScrapedBatch(d) ==
    [i \in 1..Len(ScrapedItems) |->
        [f \in DOMAIN MenuRow(0, ReimportCsv[1]) \ {"id"} |->
            IF f = "date" THEN d
            ELSE IF f = "location" THEN "Annenberg"
            ELSE IF f = "category" THEN None
            ELSE IF f = "tags" THEN Some("")
            ELSE ScrapedItems[i][f]]]

\* The ids that rows of user_meals and item_feedback refer to
ReferredIds(meals, ratings) ==
    {meals[i].menu_item_id : i \in 1..Len(meals)}
    \cup {ratings[i].menu_item_id : i \in 1..Len(ratings)}

\* C15: when a re-ingestion for date D completes, the stored menu items of
\* D are exactly the newly ingested batch and no logged-meal or rating row
\* refers to an item of the prior batch, for a run of import_menu.py as for
\* a run of scrape_day, add_meal and item_feedback requests interleaved.
C15_ReingestionReplaces ==
    [][/\ \A k \in 1..Len(ReimportCsv) :
             import_menu(ReimportCsv[k]) =>
                 LET d == ReimportCsv[k].date
                 IN  /\ StoredFor(menu_items', d)
                            = StoredFor(<<MenuRow(0, ReimportCsv[k])>>, d)
                     /\ ReferredIds(user_meals', item_feedback') \cap ids_of_date(d) = {}
       /\ (insert_items /\ inflight'[Scraper] = Idle) =>
             LET d == inflight[Scraper].date_iso
             IN  /\ StoredFor(menu_items', d) = ScrapedBatch(d)
                 /\ \A id \in ReferredIds(user_meals', item_feedback') :
                        \E i \in 1..Len(menu_items') : menu_items'[i].id = id
      ]_vars

(***************************************************************************)
(* Removing logged meals                                                   *)
(***************************************************************************)
\* The logged meals that are not of user u on date d, in rowid order
OtherMeals(u, d) ==
    LET Other(um) == ~(um.user_id = u /\ um.date = d)
    IN  SelectSeq(user_meals, Other)

\* The date a form names, today without one
DateOf(form, today) == IF form.date = None \/ form.date = Some("") THEN today ELSE form.date[1]

\* C16: reset_intake by user u for date d deletes every logged meal of u on
\* d whatever the meal parameter, and leaves every logged meal of another
\* user or date as it is; from then on the daily totals of u for d are all 0
\* until the next add_meal of u for d.
C16_BulkReset ==
    [][\A u \in Diners :
         /\ \A form \in ResetIntakeForms, today \in Todays :
                reset_intake(u, form, today) =>
                    /\ LoggedOn(u, DateOf(form, today))' = {}
                    /\ OtherMeals(u, DateOf(form, today))' = OtherMeals(u, DateOf(form, today))
                    /\ TotalsOf(u, DateOf(form, today))' = ZeroTotals
         /\ \A d \in Dates :
                (/\ LoggedOn(u, d) = {}
                 /\ ~\E form \in AddMealForms, today \in Todays :
                        DateOf(form, today) = d /\ add_meal(u, form, today)) =>
                    TotalsOf(u, d)' = ZeroTotals
      ]_vars

\* The second of the two logged meals is gone and the totals of user 1
\* are all 0 on the day of the first, of user 2, which is still there
C16_Witness ==
    /\ sqlite_sequence.user_meals = 2
    /\ Len(user_meals) = 1
    /\ user_meals[1].id = 1
    /\ user_meals[1].user_id = 2
    /\ TotalsOf(1, user_meals[1].date) = ZeroTotals
    /\ TotalsOf(2, user_meals[1].date).calories = 200

\* The logged meals of user v, in rowid order
MealsOf(v) ==
    LET Mine(um) == um.user_id = v
    IN  SelectSeq(user_meals, Mine)

\* The positions of the logged meals of user u that the form's id names
Named(u, form) ==
    {k \in 1..Len(user_meals) :
        /\ user_meals[k].user_id = u
        /\ form.user_meal_id = Some(Chr(DIGITS, user_meals[k].id + 1))}

\* C17: remove_meal by user u with logged-meal id k deletes the row of id k
\* where it belongs to u and nothing else; where k is missing, unknown or
\* of another user, user_meals stays as it is; and no request of u
\* (add_meal, remove_meal, reset_intake) changes the logged meals or the
\* totals of another user.
C17_OwnerOnlyRemoval ==
    [][\A u \in Diners :
         /\ \A form \in RemoveMealForms :
                remove_meal(u, form) =>
                    /\ Cardinality(Named(u, form)) <= 1
                    /\ \A k \in Named(u, form) : user_meals' = Without(k)
                    /\ Named(u, form) = {} => user_meals' = user_meals
         /\ \/ \A v \in Diners \ {u} :
                    /\ MealsOf(v)' = MealsOf(v)
                    /\ \A d \in Dates : TotalsOf(v, d)' = TotalsOf(v, d)
            \/ ~(\/ \E form \in RemoveMealForms : remove_meal(u, form)
                 \/ \E form \in AddMealForms, today \in Todays : add_meal(u, form, today)
                 \/ \E form \in ResetIntakeForms, today \in Todays :
                        reset_intake(u, form, today))
      ]_vars

\* The first logged meal is gone; the second one, of user 2, is there and
\* counted in the totals of user 2
C17_Witness ==
    /\ sqlite_sequence.user_meals = 2
    /\ Len(user_meals) = 1
    /\ user_meals[1].id = 2
    /\ user_meals[1].user_id = 2
    /\ MealsOf(1) = <<>>
    /\ TotalsOf(2, user_meals[1].date).calories = 200

(***************************************************************************)
(* Ratings                                                                 *)
(***************************************************************************)
\* The rows (positions in the table) of user u for menu item id
RatingRows(table, u, id) ==
    {i \in 1..Len(table) : table[i].user_id = u /\ table[i].menu_item_id = id}

\* The integers of 1..5 that a rating text denotes: none or one
Denoted(text) ==
    IF text = None THEN {}
    ELSE {n \in 1..5 : strip(text[1]) \in {Chr(DIGITS, n + 1), "+" \o Chr(DIGITS, n + 1)}}

\* At most one row per user and item, each rating an integer of 1..5, and
\* the dashboard of a user shows just these ratings
RatingsKept ==
    /\ \A i, j \in 1..Len(item_feedback) :
           (/\ item_feedback[i].user_id = item_feedback[j].user_id
            /\ item_feedback[i].menu_item_id = item_feedback[j].menu_item_id) => i = j
    /\ \A i \in 1..Len(item_feedback) : item_feedback[i].rating \in 1..5
    /\ (Rendered /\ response.date # None) =>
           \A i \in 1..Len(item_feedback) :
               item_feedback[i].user_id = response.user =>
                   /\ item_feedback[i].menu_item_id \in DOMAIN response.ratings
                   /\ response.ratings[item_feedback[i].menu_item_id] = item_feedback[i].rating

\* C18: with item_feedback requests handled one after the other, there is
\* at most one row per user and menu item, its rating an integer of 1..5;
\* a valid request leaves the row of its user and item with its rating (the
\* last valid one) and the other rows as they were; a request with a
\* missing item id or a missing, non-integer or out-of-range rating ends at
\* its validation, only a valid one going on to the write; and nothing but
\* that write changes the table.
C18_LastValidRating ==
    [][/\ RatingsKept'
       /\ \A t \in Threads :
             /\ (inflight[t] # Idle /\ item_feedback_write(t)) =>
                   LET u == inflight[t].user_id
                       id == inflight[t].menu_item_id
                   IN  /\ \A i \in RatingRows(item_feedback', u, id) :
                              item_feedback'[i].rating = inflight[t].rating
                       /\ (\E m \in 1..Len(menu_items) : menu_items[m].id = id) =>
                              RatingRows(item_feedback', u, id) # {}
                       /\ \A i \in 1..Len(item_feedback) \ RatingRows(item_feedback, u, id) :
                              item_feedback'[i] = item_feedback[i]
             /\ inflight'[t] # Idle =>
                   /\ Denoted(inflight'[t].rating_str) = {inflight'[t].rating}
                   /\ inflight'[t].menu_item_id \in 1..MaxItems
       /\ \/ item_feedback' = item_feedback
          \/ \E t \in Threads : inflight[t] # Idle /\ item_feedback_write(t)
      ]_vars

\* User 1 rated item 1 with " 4 " and item 2 with 1, and the dashboard
\* shows both
C18_Witness ==
    /\ Rendered /\ response.user = 1
    /\ DOMAIN response.ratings = {1, 2}
    /\ response.ratings[1] = 4
    /\ response.ratings[2] = 1

(***************************************************************************)
(* Likes                                                                   *)
(***************************************************************************)
\* The feedback_likes rows (positions) of entry id, and those of user u
LikesOf(id) == {i \in 1..Len(feedback_likes) : feedback_likes[i].feedback_id = id}
LikesBy(u, id) == {i \in LikesOf(id) : feedback_likes[i].user_id = u}

\* C19: whenever no feedback_like request is in flight, however the
\* requests before were interleaved, the likes of every feedback entry is
\* the number of its feedback_likes rows and is not negative, and every
\* user has at most one such row per entry.
C19_LikeCounter ==
    (\A t \in Threads : inflight[t] = Idle) =>
        \A i \in 1..Len(feedback) :
            /\ feedback[i].likes = Cardinality(LikesOf(feedback[i].id))
            /\ feedback[i].likes >= 0
            /\ \A u \in Diners : Cardinality(LikesBy(u, feedback[i].id)) <= 1

(***************************************************************************)
(* The best item of each category                                          *)
(***************************************************************************)
\* C20: every recommended item scores at least as high as every admissible
\* item of its category, and is the earliest in input order of those that
\* score the same; when 3 items are recommended, no admissible item of a
\* category without a recommended item scores higher than the lowest-scoring
\* recommended item.
C20_BestOfCategory ==
    Rendered =>
        /\ \A i \in 1..Len(Recs), j \in 1..Len(Shown) :
               infer_category(Shown[j].name) = infer_category(Recs[i].name) =>
                   /\ ScoreOf(Recs[i]) >= ScoreOf(Shown[j])
                   /\ ScoreOf(Recs[i]) = ScoreOf(Shown[j]) =>
                          PosIn(Recs[i], Shown) <= j
        /\ Len(Recs) = 3 =>
               \A j \in 1..Len(Shown) :
                   infer_category(Shown[j].name) \notin CategoriesOf(Recs) =>
                       \A i \in 1..Len(Recs) : ScoreOf(Shown[j]) <= ScoreOf(Recs[i])

\* Three recommendations and an admissible item of a fourth category, which
\* is left out
C20_Witness ==
    /\ Rendered
    /\ Len(Recs) = 3
    /\ Len(Shown) = 4
    /\ \E j \in 1..Len(Shown) : infer_category(Shown[j].name) \notin CategoriesOf(Recs)
====
